---- MODULE Spec2Model ----
(***************************************************************************)
(* A model of the entity-component core of potato-engine:                  *)
(*   ecs/src/entities.rs    EntityAllocator                                *)
(*   ecs/src/components.rs  ComponentTypeIndexRegistry, ComponentStorage   *)
(*   ecs/src/archetypes.rs  Archetype, ArchetypeKey                        *)
(*   ecs/src/lib.rs         World                                          *)
(*   ecs_macros/src/lib.rs  the generated Query implementations            *)
(* and of the part of the engine that drives it:                           *)
(*   engine/src/utils/mod.rs  ThreadPool                                   *)
(*   engine/src/lib.rs        Engine: init, init_scene, about_to_wait      *)
(*                                                                         *)
(* Rust indices are 0-based and kept 0-based as values; a Vec is a         *)
(* sequence, so Vec element i is s[i + 1].  Option<T> is a sequence of     *)
(* length at most one: None is <<>>, Some(x) is <<x>>.                     *)
(***************************************************************************)
EXTENDS Integers, Sequences, FiniteSets, TLC

VARIABLES
    generations,          \* EntityAllocator.generations : Vec<u32>
    free_list,            \* EntityAllocator.free_list   : Vec<u32>
    type_to_index,        \* ComponentTypeIndexRegistry.type_to_index : Vec<TypeId>
    factories,            \* ComponentTypeIndexRegistry.factories (element type each factory builds)
    archetypes,           \* World.archetypes : Vec<(ArchetypeKey, Archetype)>
    entity_location_map,  \* World.entity_location_map : Vec<Option<(usize, usize)>>
    panicked,             \* TRUE once a call has panicked (the thread unwinds)
    last,                 \* the most recent call, its arguments and what it returned
    spawned,              \* history: the spawn calls so far, <<[entity, tys]>>
    issued,               \* history: handles returned by allocate() since Init
    freed,                \* history: issued handles that were passed to deallocate()
    job_queue,            \* ThreadPool.job_queue: the VecDeque<Job> (a job is its tick number)
    queue_lock,           \* the Mutex of job_queue: None, or Some(thread holding it)
    cvar_waiting,         \* the workers blocked in Condvar::wait
    is_running,           \* ThreadPool.is_running : AtomicBool
    wpc,                  \* where each worker thread is in its loop
    wjob,                 \* the job each worker popped (0: none)
    world_lock,           \* the Mutex of Engine.world: None, or Some(thread holding it)
    mpc,                  \* where the main thread is
    ticks,                \* simulation ticks submitted so far
    scene_spawned,        \* spawn calls init_scene has made
    world_log,            \* history: lock, unlock and World calls, in order
    frame_index,          \* Engine.frame_index : FrameIndex
    sim_frame_index,      \* Engine.sim_frame_index : FrameIndex
    keys,                 \* Registry.keys : Vec<RegisterKey> (the CPU queue registry)
    registry,             \* Registry.registry : Vec<T>, here the ring queues
    vertex_offset,        \* MeshAllocator.vertex_offset : [u64; 3]
    index_offset          \* MeshAllocator.index_offset : [u64; 3]

vars == <<generations, free_list, type_to_index, factories, archetypes,
          entity_location_map, panicked, last, spawned, issued, freed,
          job_queue, queue_lock, cvar_waiting, is_running, wpc, wjob,
          world_lock, mpc, ticks, scene_spawned, world_log,
          frame_index, sim_frame_index, keys, registry, vertex_offset, index_offset>>

engineVars == <<job_queue, queue_lock, cvar_waiting, is_running, wpc, wjob,
                world_lock, mpc, ticks, scene_spawned, world_log>>
renderVars == <<frame_index, sim_frame_index, keys, registry, vertex_offset, index_offset>>
ecsVars == <<generations, free_list, type_to_index, factories, archetypes,
             entity_location_map, panicked, last, spawned, issued, freed>>

allocVars == <<generations, free_list>>
worldVars == <<type_to_index, factories, archetypes, entity_location_map>>

(***************************************************************************)
(* Bounds of the model.                                                    *)
(***************************************************************************)
MaxSpawns == 2
MaxTuple == 2
MaxVal == 2
MaxQueryArity == 2
MaxAllocs == 3
MaxTicks == 2
SceneSpawns == 2
VertexCapacity == 3
IndexCapacity == 3
MaxDataLen == 2

\* The component types (TypeId values) the callers name, the ones they spawn
\* entities with ("U" is never spawned, so never registered), and the values.
Types == {"A", "B", "U"}
SpawnTypes == {"A", "B"}
Vals == 1..MaxVal

None == <<>>
Some(x) == <<x>>
IsSome(o) == Len(o) = 1
Unwrap(o) == o[1]

RECURSIVE SeqMin(_)
SeqMin(s) ==
    IF Len(s) = 1 THEN s[1]
    ELSE LET m == SeqMin(Tail(s)) IN IF s[1] < m THEN s[1] ELSE m

(***************************************************************************)
(* u32.  TLC's integers are 32-bit signed, so a u32 is held as two 16-bit  *)
(* limbs [hi, lo]; the value is hi * 2^16 + lo.                            *)
(***************************************************************************)
U32Bits == 32
LimbBase == 2 ^ (U32Bits \div 2)
U32(n) == [hi |-> n \div LimbBase, lo |-> n % LimbBase]
U32Max == [hi |-> LimbBase - 1, lo |-> LimbBase - 1]
U32Less(a, b) == a.hi < b.hi \/ (a.hi = b.hi /\ a.lo < b.lo)
\* a + 1 in a build without overflow checks (wrapping)
U32WrappingInc(a) ==
    IF a.lo < LimbBase - 1 THEN [a EXCEPT !.lo = @ + 1]
    ELSE IF a.hi < LimbBase - 1 THEN [hi |-> a.hi + 1, lo |-> 0]
    ELSE [hi |-> 0, lo |-> 0]

(***************************************************************************)
(* EntityId and EntityAllocator (ecs/src/entities.rs)                      *)
(***************************************************************************)
EntityId(index, generation) == [index |-> index, generation |-> generation]

\* allocate() that takes the oldest free index (a queue instead of a stack).
allocate_fifo(gens, fl) ==
    IF Len(fl) > 0
    THEN LET index == fl[1] IN
         [entity |-> EntityId(index, gens[index + 1]),
          generations |-> gens,
          free_list |-> Tail(fl)]
    ELSE [entity |-> EntityId(Len(gens), U32(0)),
          generations |-> Append(gens, U32(0)),
          free_list |-> fl]

\* allocate(): pop the free list, else grow by one slot of generation 0.
allocate(gens, fl) ==
    IF Len(fl) > 0
    THEN LET index == fl[Len(fl)] IN
         [entity |-> EntityId(index, gens[index + 1]),
          generations |-> gens,
          free_list |-> SubSeq(fl, 1, Len(fl) - 1)]
    ELSE [entity |-> EntityId(Len(gens), U32(0)),
          generations |-> Append(gens, U32(0)),
          free_list |-> fl]

\* is_alive(): generations.get(index).map_or(false, |g| g == entity.generation)
is_alive(gens, entity) ==
    IF entity.index < Len(gens)
    THEN gens[entity.index + 1] = entity.generation
    ELSE FALSE

\* deallocate() without its generation check.
deallocate_unchecked(gens, entity) == TRUE

\* The guard of deallocate(): the handle's generation is the slot's.
deallocate_matches(gens, entity) ==
    gens[entity.index + 1] = entity.generation

(***************************************************************************)
(* ComponentTypeIndexRegistry (ecs/src/components.rs)                      *)
(***************************************************************************)
RECURSIVE position(_, _, _)
\* iter().position(|id| id == type_id), scanning from 0-based index i
position(ids, type_id, i) ==
    IF i >= Len(ids) THEN None
    ELSE IF ids[i + 1] = type_id THEN Some(i)
    ELSE position(ids, type_id, i + 1)

\* get_index that starts its scan at the second registered type.
get_index_skipping_first(ids, type_id) == position(ids, type_id, 1)

\* get_index(type_id): type_to_index.iter().position(|&id| id == type_id)
get_index(ids, type_id) == position(ids, type_id, 0)

\* get_or_register that puts a new type in front of the registered ones.
get_or_register_prepending(reg, type_id) ==
    LET found == position(reg.type_to_index, type_id, 0) IN
    IF IsSome(found)
    THEN [index |-> Unwrap(found), reg |-> reg]
    ELSE [index |-> 0,
          reg |-> [type_to_index |-> <<type_id>> \o reg.type_to_index,
                   factories |-> <<type_id>> \o reg.factories]]

\* get_or_register::<T>(): the index of T, appended when absent.
get_or_register(reg, type_id) ==
    LET found == position(reg.type_to_index, type_id, 0) IN
    IF IsSome(found)
    THEN [index |-> Unwrap(found), reg |-> reg]
    ELSE [index |-> Len(reg.type_to_index),
          reg |-> [type_to_index |-> Append(reg.type_to_index, type_id),
                   factories |-> Append(reg.factories, type_id)]]

\* The factory of index i builds an empty Vec of the type it was registered for.
create_empty_column(reg, index) == [ty |-> reg.factories[index + 1], data |-> <<>>]

RECURSIVE component_indices(_, _)
\* ComponentTuple::component_indices: get_or_register for each position, in order.
component_indices(reg, tys) ==
    IF tys = <<>> THEN [indices |-> <<>>, reg |-> reg]
    ELSE LET r == get_or_register(reg, tys[1])
             rest == component_indices(r.reg, Tail(tys))
         IN [indices |-> <<r.index>> \o rest.indices, reg |-> rest.reg]

\* ComponentTuple::into_components: one single-element carrier per position.
into_components(comps) ==
    [i \in 1..Len(comps) |-> [ty |-> comps[i].ty, data |-> <<comps[i].val>>]]

(***************************************************************************)
(* ArchetypeKey and Archetype (ecs/src/archetypes.rs)                      *)
(***************************************************************************)
RECURSIVE InsertSorted(_, _)
InsertSorted(s, x) ==
    IF s = <<>> THEN <<x>>
    ELSE IF x <= s[1] THEN <<x>> \o s
    ELSE <<s[1]>> \o InsertSorted(Tail(s), x)

RECURSIVE new_sorted(_)
\* ArchetypeKey::new_sorted: the index list, sorted (nothing is removed).
new_sorted(indices) ==
    IF indices = <<>> THEN <<>>
    ELSE InsertSorted(new_sorted(Tail(indices)), indices[1])

RECURSIVE FillColumns(_, _, _)
\* The loop of Archetype::new: assert the index, then install an empty column.
FillColumns(components, indices, reg) ==
    IF indices = <<>> THEN [ok |-> TRUE, components |-> components]
    ELSE IF ~(indices[1] < Len(components)) THEN [ok |-> FALSE, components |-> components]
    ELSE FillColumns(
            [components EXCEPT ![indices[1] + 1] = Some(create_empty_column(reg, indices[1]))],
            Tail(indices), reg)

\* Archetype::new with one slot per given index instead of one per registered type.
Archetype_new_tuple_sized(indices, reg) ==
    LET total_types == Len(indices)
        filled == FillColumns([i \in 1..total_types |-> None], indices, reg)
    IN [ok |-> filled.ok,
        archetype |-> [components |-> filled.components, entities |-> <<>>]]

\* Archetype::new that installs a column for every registered type.
Archetype_new_all_columns(indices, reg) ==
    LET total_types == Len(reg.type_to_index)
        filled == FillColumns([i \in 1..total_types |-> None], indices, reg)
    IN [ok |-> filled.ok,
        archetype |-> [components |-> [i \in 1..total_types |->
                                          Some(create_empty_column(reg, i - 1))],
                       entities |-> <<>>]]

\* Archetype::new: one slot per registered type, populated for the given indices.
Archetype_new(indices, reg) ==
    LET total_types == Len(reg.type_to_index)
        filled == FillColumns([i \in 1..total_types |-> None], indices, reg)
    IN [ok |-> filled.ok,
        archetype |-> [components |-> filled.components, entities |-> <<>>]]

\* get_column that falls back to the last slot for an index past the end of the
\* slot array and hands out whatever column the slot holds.
get_column_clamped(arch, ty, index) ==
    LET i == IF index < Len(arch.components) THEN index ELSE Len(arch.components) - 1
        slot == arch.components[i + 1]
    IN IF IsSome(slot) THEN Some(Unwrap(slot)) ELSE None

\* Archetype::get_column::<T>(index): the column when the slot holds a Vec<T>.
get_column(arch, ty, index) ==
    IF index < Len(arch.components)
    THEN LET slot == arch.components[index + 1] IN
         IF IsSome(slot) /\ Unwrap(slot).ty = ty THEN Some(Unwrap(slot)) ELSE None
    ELSE None

RECURSIVE PushColumns(_, _, _)
\* The loop of Archetype::insert: column.push_from_other(&mut components[i]).
PushColumns(components, indices, carriers) ==
    IF indices = <<>> THEN [ok |-> TRUE, components |-> components]
    ELSE LET slot == components[indices[1] + 1] IN
         IF ~IsSome(slot) \/ Unwrap(slot).ty # carriers[1].ty \/ carriers[1].data = <<>>
         THEN [ok |-> FALSE, components |-> components]
         ELSE PushColumns(
                [components EXCEPT ![indices[1] + 1] =
                    Some([Unwrap(slot) EXCEPT !.data = Append(@, carriers[1].data[1])])],
                Tail(indices), Tail(carriers))

\* Archetype::insert: push the entity, then one value per supplied component.
Archetype_insert(arch, entity, indices, carriers) ==
    LET pushed == PushColumns(arch.components, indices, carriers) IN
    [ok |-> pushed.ok,
     archetype |-> [components |-> pushed.components,
                    entities |-> Append(arch.entities, entity)]]

\* Archetype::get_column_mut::<T>(index): as get_column, borrowed mutably.
get_column_mut(arch, ty, index) ==
    IF index < Len(arch.components)
    THEN LET slot == arch.components[index + 1] IN
         IF IsSome(slot) /\ Unwrap(slot).ty = ty THEN Some(Unwrap(slot)) ELSE None
    ELSE None

(***************************************************************************)
(* The generated Query implementations (ecs_macros/src/lib.rs).  A query   *)
(* type q is a sequence of access specs [ty, mut], one per tuple position. *)
(***************************************************************************)
RECURSIVE resolve_indices(_, _)
\* vec![registry.get_index(TypeId::of::<Ti>())?, ...]: None when any type is unknown.
resolve_indices(ids, q) ==
    IF q = <<>> THEN Some(<<>>)
    ELSE LET i == get_index(ids, q[1].ty) IN
         IF ~IsSome(i) THEN None
         ELSE LET rest == resolve_indices(ids, Tail(q)) IN
              IF ~IsSome(rest) THEN None
              ELSE Some(<<Unwrap(i)>> \o Unwrap(rest))

RECURSIVE resolve_columns(_, _, _)
\* let col_i = (&mut *ptr).get_column[_mut](indices[i])?; None when any column is absent.
resolve_columns(arch, q, indices) ==
    IF q = <<>> THEN Some(<<>>)
    ELSE LET c == IF q[1].mut THEN get_column_mut(arch, q[1].ty, indices[1])
                  ELSE get_column(arch, q[1].ty, indices[1]) IN
         IF ~IsSome(c) THEN None
         ELSE LET rest == resolve_columns(arch, Tail(q), Tail(indices)) IN
              IF ~IsSome(rest) THEN None
              ELSE Some(<<Unwrap(c)>> \o Unwrap(rest))

\* The rows zipped from the last one to the first.
zip_rows_reversed(columns) ==
    LET n == SeqMin([i \in 1..Len(columns) |-> Len(columns[i].data)]) IN
    [r \in 1..n |-> [i \in 1..Len(columns) |-> columns[i].data[n + 1 - r]]]

\* col_0.iter().zip(col_1.iter())...: lock-step rows, as many as the shortest column.
zip_rows(columns) ==
    LET n == SeqMin([i \in 1..Len(columns) |-> Len(columns[i].data)]) IN
    [r \in 1..n |-> [i \in 1..Len(columns) |-> columns[i].data[r]]]

\* Query::query_archetype(archetype, registry)
query_archetype(arch, ids, q) ==
    LET indices == resolve_indices(ids, q) IN
    IF ~IsSome(indices) THEN None
    ELSE LET columns == resolve_columns(arch, q, Unwrap(indices)) IN
         IF ~IsSome(columns) THEN None
         ELSE Some([indices |-> Unwrap(indices), rows |-> zip_rows(Unwrap(columns))])

RECURSIVE query(_, _, _, _)
\* World::query: filter_map over the archetypes in list order, flattened.
\* Each item carries where its references point: the archetype, the row, the columns.
query(archs, ids, q, i) ==
    IF i >= Len(archs) THEN [items |-> <<>>, borrows |-> <<>>]
    ELSE LET m == query_archetype(archs[i + 1], ids, q)
             rest == query(archs, ids, q, i + 1)
         IN IF ~IsSome(m) THEN rest
            ELSE [items |-> [r \in 1..Len(Unwrap(m).rows) |->
                                [arch |-> i, row |-> r - 1,
                                 indices |-> Unwrap(m).indices,
                                 vals |-> Unwrap(m).rows[r]]] \o rest.items,
                  borrows |-> <<[arch |-> i, indices |-> Unwrap(m).indices]>> \o rest.borrows]

\* The assignment landing in the first row of the column, whatever the item.
write_cell_first_row(archs, w) ==
    [archs EXCEPT ![w.arch + 1].components[w.index + 1] =
        Some([Unwrap(@) EXCEPT !.data[1] = w.val])]

\* *v = val through the mutable reference an item holds into a column.
write_cell(archs, w) ==
    [archs EXCEPT ![w.arch + 1].components[w.index + 1] =
        Some([Unwrap(@) EXCEPT !.data[w.row + 1] = w.val])]

(***************************************************************************)
(* World (ecs/src/lib.rs)                                                  *)
(***************************************************************************)
RECURSIVE find_archetype(_, _, _)
\* The scan of find_or_create_archetype: the first archetype whose key is equal.
find_archetype(archs, key, i) ==
    IF i >= Len(archs) THEN None
    ELSE IF archs[i + 1].key = key THEN Some(i)
    ELSE find_archetype(archs, key, i + 1)

\* find_or_create_archetype: the index found, else a new archetype appended.
find_or_create_archetype(archs, reg, key, indices) ==
    LET found == find_archetype(archs, key, 0) IN
    IF IsSome(found)
    THEN [ok |-> TRUE, index |-> Unwrap(found), archetypes |-> archs]
    ELSE LET made == Archetype_new(indices, reg) IN
         [ok |-> made.ok,
          index |-> Len(archs),
          archetypes |-> Append(archs, [key |-> key,
                                        components |-> made.archetype.components,
                                        entities |-> made.archetype.entities])]

\* A resize that starts from an empty map: every slot is None again.
resize_with_clearing(map, n) ==
    [i \in 1..n |-> None]

\* resize_with(n, || None): truncate or pad with None to length n.
resize_with(map, n) ==
    [i \in 1..n |-> IF i <= Len(map) THEN map[i] ELSE None]

\* World::get_component::<T>(entity) once T's index and the location are known.
get_component(archs, ids, locs, entity, ty) ==
    LET index == Unwrap(get_index(ids, ty))
        loc == Unwrap(locs[entity.index + 1])
        column == get_column(archs[loc[1] + 1], ty, index)
    IN IF IsSome(column) /\ loc[2] < Len(Unwrap(column).data)
       THEN Some(Unwrap(column).data[loc[2] + 1])
       ELSE None

\* The unwraps of get_component: T is registered and the entity has a location.
get_component_ok(ids, locs, entity, ty) ==
    /\ IsSome(get_index(ids, ty))
    /\ entity.index < Len(locs)
    /\ IsSome(locs[entity.index + 1])

NoEntity == [index |-> 0 - 1, generation |-> U32(0)]
NoWrite == [arch |-> 0 - 1, index |-> 0 - 1, row |-> 0 - 1, val |-> 0]
NoLast == [op |-> "new", entity |-> NoEntity, comps |-> <<>>, q |-> <<>>,
           items |-> <<>>, borrows |-> <<>>, write |-> NoWrite, ty |-> "",
           res |-> None, alive |-> FALSE, arg |-> <<>>]

Registry == [type_to_index |-> type_to_index, factories |-> factories]

Components == [ty : SpawnTypes, val : Vals]
Tuples == UNION {[1..n -> Components] : n \in 1..MaxTuple}
TypesOf(comps) == [i \in 1..Len(comps) |-> comps[i].ty]

\* World::spawn(components)
Spawn(comps) ==
    /\ ~panicked
    /\ Len(spawned) < MaxSpawns
    /\ LET a == allocate(generations, free_list)
           entity == a.entity
           ci == component_indices(Registry, TypesOf(comps))
           component_data == into_components(comps)
           layout_key == new_sorted(ci.indices)
           f == find_or_create_archetype(archetypes, ci.reg, layout_key, ci.indices)
           row == Len(f.archetypes[f.index + 1].entities)
           ins == Archetype_insert(f.archetypes[f.index + 1], entity, ci.indices, component_data)
           stored == [f.archetypes EXCEPT ![f.index + 1] =
                         [key |-> @.key, components |-> ins.archetype.components,
                          entities |-> ins.archetype.entities]]
           grown == resize_with(entity_location_map, entity.index + 1)
       IN /\ generations' = a.generations
          /\ free_list' = a.free_list
          /\ type_to_index' = ci.reg.type_to_index
          /\ factories' = ci.reg.factories
          /\ IF f.ok /\ ins.ok
             THEN /\ archetypes' = stored
                  /\ entity_location_map' =
                        [grown EXCEPT ![entity.index + 1] = Some(<<f.index, row>>)]
                  /\ panicked' = FALSE
             ELSE /\ archetypes' = IF f.ok THEN stored ELSE archetypes
                  /\ entity_location_map' = entity_location_map
                  /\ panicked' = TRUE
          /\ last' = [NoLast EXCEPT !.op = "spawn", !.entity = entity, !.comps = comps]
          /\ spawned' = Append(spawned, [entity |-> entity, tys |-> TypesOf(comps)])
          /\ issued' = issued \cup {entity}
          /\ freed' = freed
    /\ UNCHANGED <<engineVars, renderVars>>

QueryTypes == UNION {[1..n -> [ty : Types, mut : BOOLEAN]] : n \in 1..MaxQueryArity}
EntityIds == {EntityId(i, U32(0)) : i \in 0..MaxSpawns}

\* A query that resolves its types with get_or_register instead of get_index.
Query_registering(q) ==
    /\ ~panicked
    /\ LET ci == component_indices(Registry, [i \in 1..Len(q) |-> q[i].ty])
           found == query(archetypes, ci.reg.type_to_index, q, 0)
       IN /\ type_to_index' = ci.reg.type_to_index
          /\ factories' = ci.reg.factories
          /\ last' = [NoLast EXCEPT !.op = "query", !.q = q,
                                 !.items = found.items, !.borrows = found.borrows]
    /\ UNCHANGED <<allocVars, archetypes, entity_location_map, panicked, spawned, issued, freed>>
    /\ UNCHANGED <<engineVars, renderVars>>

\* World::query::<Q>() consumed by a loop that only reads the items.
Query(q) ==
    /\ ~panicked
    /\ LET found == query(archetypes, type_to_index, q, 0) IN
       last' = [NoLast EXCEPT !.op = "query", !.q = q,
                              !.items = found.items, !.borrows = found.borrows]
    /\ UNCHANGED <<allocVars, worldVars, panicked, spawned, issued, freed>>
    /\ UNCHANGED <<engineVars, renderVars>>

\* What a loop over World::query::<q>() can assign: val through the &mut
\* reference at tuple position p of the k-th item, for each k, p and val.
assignments(archs, ids, q) ==
    LET found == query(archs, ids, q, 0) IN
    {[ty |-> q[p].ty,
      write |-> [arch |-> found.items[k].arch, index |-> found.items[k].indices[p],
                 row |-> found.items[k].row, val |-> val]] :
        k \in 1..Len(found.items), p \in {i \in 1..Len(q) : q[i].mut}, val \in Vals}

\* World::query::<Q>() consumed by a loop that assigns through one of the &mut
\* references of one item, for any query type Q.  When Q repeats a type, the
\* item's references alias one column; the single store of this step lands in
\* the cell they both point to.
QueryAssign ==
    /\ ~panicked
    /\ \E a \in UNION {assignments(archetypes, type_to_index, q) : q \in QueryTypes} :
          /\ archetypes' = write_cell(archetypes, a.write)
          /\ last' = [NoLast EXCEPT !.op = "query_assign", !.ty = a.ty, !.write = a.write]
    /\ UNCHANGED <<allocVars, type_to_index, factories, entity_location_map,
                   panicked, spawned, issued, freed>>
    /\ UNCHANGED <<engineVars, renderVars>>

\* get_component that answers None where the code unwraps.
GetComponent_graceful(entity, ty) ==
    /\ ~panicked
    /\ last' = [NoLast EXCEPT !.op = "get_component", !.entity = entity, !.ty = ty,
                    !.res = IF get_component_ok(type_to_index, entity_location_map, entity, ty)
                            THEN get_component(archetypes, type_to_index,
                                               entity_location_map, entity, ty)
                            ELSE None]
    /\ panicked' = FALSE
    /\ UNCHANGED <<allocVars, worldVars, spawned, issued, freed>>
    /\ UNCHANGED <<engineVars, renderVars>>

\* World::get_component::<T>(entity)
GetComponent(entity, ty) ==
    /\ ~panicked
    /\ IF get_component_ok(type_to_index, entity_location_map, entity, ty)
       THEN /\ last' = [NoLast EXCEPT !.op = "get_component", !.entity = entity, !.ty = ty,
                           !.res = get_component(archetypes, type_to_index,
                                                 entity_location_map, entity, ty)]
            /\ panicked' = FALSE
       ELSE /\ last' = [NoLast EXCEPT !.op = "get_component", !.entity = entity, !.ty = ty]
            /\ panicked' = TRUE
    /\ UNCHANGED <<allocVars, worldVars, spawned, issued, freed>>
    /\ UNCHANGED <<engineVars, renderVars>>

(***************************************************************************)
(* The allocator used on its own: allocate, deallocate and is_alive with   *)
(* any handle a caller can hold: one the allocator issued, or one from     *)
(* elsewhere (another allocator), whose index or generation it never saw.  *)
(***************************************************************************)
ForeignHandles ==
    {EntityId(i, g) : i \in {0, Len(generations)}, g \in {U32(0), U32(1), U32Max}}

\* EntityAllocator::allocate()
Allocate ==
    /\ ~panicked
    /\ Cardinality(issued) < MaxAllocs
    /\ LET a == allocate(generations, free_list) IN
       /\ generations' = a.generations
       /\ free_list' = a.free_list
       /\ last' = [NoLast EXCEPT !.op = "allocate", !.entity = a.entity]
       /\ issued' = issued \cup {a.entity}
    /\ UNCHANGED <<worldVars, panicked, spawned, freed>>
    /\ UNCHANGED <<engineVars, renderVars>>

\* EntityAllocator::deallocate(entity).  generations[index] panics on an index
\* the Vec does not have; += 1 on u32::MAX panics in a build with overflow
\* checks and wraps to 0 in a build without them.
Deallocate(entity) ==
    /\ ~panicked
    /\ last' = [NoLast EXCEPT !.op = "deallocate", !.entity = entity]
    /\ freed' = IF entity \in issued THEN freed \cup {entity} ELSE freed
    /\ \/ /\ ~(entity.index < Len(generations))
          /\ panicked' = TRUE
          /\ UNCHANGED allocVars
       \/ /\ entity.index < Len(generations)
          /\ ~deallocate_matches(generations, entity)
          /\ UNCHANGED <<allocVars, panicked>>
       \/ /\ entity.index < Len(generations)
          /\ deallocate_matches(generations, entity)
          /\ generations[entity.index + 1] # U32Max
          /\ generations' = [generations EXCEPT ![entity.index + 1] = U32WrappingInc(@)]
          /\ free_list' = Append(free_list, entity.index)
          /\ UNCHANGED panicked
       \/ /\ entity.index < Len(generations)
          /\ deallocate_matches(generations, entity)
          /\ generations[entity.index + 1] = U32Max
          /\ panicked' = TRUE
          /\ UNCHANGED allocVars
       \/ /\ entity.index < Len(generations)
          /\ deallocate_matches(generations, entity)
          /\ generations[entity.index + 1] = U32Max
          /\ generations' = [generations EXCEPT ![entity.index + 1] = U32WrappingInc(@)]
          /\ free_list' = Append(free_list, entity.index)
          /\ UNCHANGED panicked
    /\ UNCHANGED <<worldVars, spawned, issued>>
    /\ UNCHANGED <<engineVars, renderVars>>

\* EntityAllocator::is_alive(entity)
IsAlive(entity) ==
    /\ ~panicked
    /\ last' = [NoLast EXCEPT !.op = "is_alive", !.entity = entity,
                           !.alive = is_alive(generations, entity)]
    /\ UNCHANGED <<allocVars, worldVars, panicked, spawned, issued, freed>>
    /\ UNCHANGED <<engineVars, renderVars>>

(***************************************************************************)
(* FrameIndex (engine/src/async/mod.rs), CpuRingQueue (ecs/src/queues.rs), *)
(* Registry (ecs/src/registries.rs, engine/src/utils/mod.rs) and the       *)
(* offsets of MeshAllocator (engine/src/graphics/mesh/mesh_allocator.rs).  *)
(***************************************************************************)
RingSlots == 3

\* FrameIndex::new(count)
FrameIndex_new(count) == [current |-> 0, count |-> count]

\* FrameIndex::index()
FrameIndex_index(fi) == fi.current

\* advance() without the modulo.
FrameIndex_advance_unwrapped(fi) == [fi EXCEPT !.current = fi.current + 1]

\* FrameIndex::advance()
FrameIndex_advance(fi) == [fi EXCEPT !.current = (fi.current + 1) % fi.count]

\* CpuRingQueue::new(init): [init.clone(), init.clone(), init]
CpuRingQueue_new(init) == [queues |-> [i \in 1..RingSlots |-> init]]

\* &self.queues[frame_index]: the array index panics outside 0..3
in_ring(frame_index_value) == frame_index_value < RingSlots

\* RegisterKey::from_label::<T>(label)
from_label(type_id, label) == [type_id |-> type_id, label |-> label]

\* The keys of the two CPU queues the systems look up.
CameraQueueKey == from_label("CpuRingQueue<CameraUniform>", "camera_cpu_uniform_triple")
DrawQueueKey == from_label("CpuRingQueue<Vec<IndirectDrawCommand>>", "indirect_draw_queue")

RECURSIVE key_position(_, _, _)
\* self.keys.iter().position(|k| k == key), scanning from 0-based index i
key_position(ks, key, i) ==
    IF i >= Len(ks) THEN None
    ELSE IF ks[i + 1] = key THEN Some(i)
    ELSE key_position(ks, key, i + 1)

\* register_key that replaces the value of a key that is already present.
register_key_last_wins(ks, values, key, value) ==
    LET found == key_position(ks, key, 0) IN
    IF IsSome(found)
    THEN [keys |-> ks, registry |-> [values EXCEPT ![Unwrap(found) + 1] = value]]
    ELSE [keys |-> Append(ks, key), registry |-> Append(values, value)]

\* Registry::register_key(key, value): nothing when the key is present, else push both.
register_key(ks, values, key, value) ==
    IF IsSome(key_position(ks, key, 0))
    THEN [keys |-> ks, registry |-> values]
    ELSE [keys |-> Append(ks, key), registry |-> Append(values, value)]

\* Registry::get(key) / get_mut(key): the value at the key's position.
Registry_get(ks, values, key) ==
    LET found == key_position(ks, key, 0) IN
    IF IsSome(found) THEN Some(values[Unwrap(found) + 1]) ELSE None

\* The component types of the render submission system, as the model names them.
Transform == "A"
MeshHandle == "B"
DrawQuery == <<[ty |-> Transform, mut |-> FALSE], [ty |-> MeshHandle, mut |-> FALSE]>>

\* The loop of run_render_submission_system: batch collects every transform,
\* mesh_handle keeps the last mesh (all zero when nothing matched; the model's
\* zero is 0).  instance_count is batch.len() as u32; the entity indices are
\* u32, so the count fits.
draw_command(items) ==
    [instance_count |-> Len(items),
     first_instance |-> 0,
     mesh |-> IF items = <<>> THEN 0 ELSE items[Len(items)].vals[2],
     transform |-> [k \in 1..Len(items) |-> items[k].vals[1]]]

\* The system that clears every ring slot before it writes its command.
run_render_submission_system_clearing(archs, ids, ks, values, f) ==
    LET found == key_position(ks, DrawQueueKey, 0) IN
    IF ~IsSome(found) THEN [ok |-> TRUE, registry |-> values]
    ELSE IF ~in_ring(f) THEN [ok |-> FALSE, registry |-> values]
    ELSE LET items == query(archs, ids, DrawQuery, 0).items IN
         [ok |-> TRUE,
          registry |-> [values EXCEPT ![Unwrap(found) + 1].queues =
                           [i \in 1..RingSlots |->
                               IF i = f + 1 THEN <<draw_command(items)>> ELSE <<>>]]]

\* World::run_render_submission_system(sim_frame_index, cpu_queue_registry)
run_render_submission_system(archs, ids, ks, values, f) ==
    LET found == key_position(ks, DrawQueueKey, 0) IN
    IF ~IsSome(found) THEN [ok |-> TRUE, registry |-> values]
    ELSE IF ~in_ring(f) THEN [ok |-> FALSE, registry |-> values]
    ELSE LET items == query(archs, ids, DrawQuery, 0).items IN
         [ok |-> TRUE,
          registry |-> [values EXCEPT ![Unwrap(found) + 1].queues[f + 1] =
                           <<draw_command(items)>>]]

\* Engine::default(): both frame indices count the ring's three slots; no
\* queue is registered; MeshAllocator::new: all offsets 0.
RenderDefault ==
    /\ frame_index = FrameIndex_new(RingSlots)
    /\ sim_frame_index = FrameIndex_new(RingSlots)
    /\ keys = <<>>
    /\ registry = <<>>
    /\ vertex_offset = [i \in 1..RingSlots |-> 0]
    /\ index_offset = [i \in 1..RingSlots |-> 0]

(***************************************************************************)
(* The threads of the engine: the main (event-loop) thread and the workers *)
(* of the pool that Engine::init creates with ThreadPool::new(4).          *)
(***************************************************************************)
NumThreads == 4
MainThread == 0
Workers == 1..NumThreads

\* Engine::default(): no thread pool yet, a new World behind a free Mutex.
EngineDefault ==
    /\ job_queue = <<>>
    /\ queue_lock = None
    /\ cvar_waiting = {}
    /\ is_running = TRUE
    /\ wpc = [w \in Workers |-> "unspawned"]
    /\ wjob = [w \in Workers |-> 0]
    /\ world_lock = None
    /\ mpc = "init"
    /\ ticks = 0
    /\ scene_spawned = 0
    /\ world_log = <<>>

\* World::new()
Init ==
    /\ generations = <<>>
    /\ free_list = <<>>
    /\ type_to_index = <<>>
    /\ factories = <<>>
    /\ archetypes = <<>>
    /\ entity_location_map = <<>>
    /\ panicked = FALSE
    /\ last = NoLast
    /\ spawned = <<>>
    /\ issued = {}
    /\ freed = {}
    /\ EngineDefault
    /\ RenderDefault

Next ==
    \/ \E comps \in Tuples : Spawn(comps)
    \/ \E q \in QueryTypes : Query(q)
    \/ QueryAssign
    \/ \E entity \in EntityIds, ty \in Types : GetComponent(entity, ty)

Spec == Init /\ [][Next]_vars

\* EntityAllocator::new(), or the allocator after slot 0 has been allocated and
\* deallocated u32::MAX times (the free list is a stack, so an allocate /
\* deallocate loop reuses one slot; no increment has overflowed yet).
InitAlloc ==
    /\ \/ generations = <<>> /\ free_list = <<>>
       \/ generations = <<U32Max>> /\ free_list = <<0>>
    /\ type_to_index = <<>>
    /\ factories = <<>>
    /\ archetypes = <<>>
    /\ entity_location_map = <<>>
    /\ panicked = FALSE
    /\ last = NoLast
    /\ spawned = <<>>
    /\ issued = {}
    /\ freed = {}
    /\ EngineDefault
    /\ RenderDefault

NextAlloc ==
    \/ Allocate
    \/ \E entity \in issued \cup ForeignHandles : Deallocate(entity)
    \/ \E entity \in issued \cup ForeignHandles : IsAlive(entity)

SpecAlloc == InitAlloc /\ [][NextAlloc]_vars

(***************************************************************************)
(* The allocator used only with handles it issued itself.  The aged        *)
(* allocator has issued and taken back (0, 0), (0, 1), ... (0, u32::MAX-1) *)
(* on slot 0; the history keeps the first of them.                         *)
(***************************************************************************)
InitAllocIssued ==
    /\ \/ /\ generations = <<>>
          /\ free_list = <<>>
          /\ issued = {}
          /\ freed = {}
       \/ /\ generations = <<U32Max>>
          /\ free_list = <<0>>
          /\ issued = {EntityId(0, U32(0))}
          /\ freed = {EntityId(0, U32(0))}
    /\ type_to_index = <<>>
    /\ factories = <<>>
    /\ archetypes = <<>>
    /\ entity_location_map = <<>>
    /\ panicked = FALSE
    /\ last = NoLast
    /\ spawned = <<>>
    /\ EngineDefault
    /\ RenderDefault

NextAllocIssued ==
    \/ Allocate
    \/ \E entity \in issued : Deallocate(entity)
    \/ \E entity \in issued : IsAlive(entity)

SpecAllocIssued == InitAllocIssued /\ [][NextAllocIssued]_vars

(***************************************************************************)
(* The registry used on its own: get_or_register and get_index with any    *)
(* of the types a caller names.                                            *)
(***************************************************************************)
RegistryTypes == Types \cup {"V"}

\* ComponentTypeIndexRegistry::get_or_register::<T>()
GetOrRegister(ty) ==
    /\ LET r == get_or_register(Registry, ty) IN
       /\ type_to_index' = r.reg.type_to_index
       /\ factories' = r.reg.factories
       /\ last' = [NoLast EXCEPT !.op = "get_or_register", !.ty = ty, !.res = Some(r.index)]
    /\ UNCHANGED <<allocVars, archetypes, entity_location_map, panicked, spawned, issued, freed>>
    /\ UNCHANGED <<engineVars, renderVars>>

\* ComponentTypeIndexRegistry::get_index(type_id)
GetIndex(ty) ==
    /\ last' = [NoLast EXCEPT !.op = "get_index", !.ty = ty,
                            !.res = get_index(type_to_index, ty)]
    /\ UNCHANGED <<allocVars, worldVars, panicked, spawned, issued, freed>>
    /\ UNCHANGED <<engineVars, renderVars>>

NextRegistry ==
    \/ \E ty \in RegistryTypes : GetOrRegister(ty)
    \/ \E ty \in RegistryTypes : GetIndex(ty)

SpecRegistry == Init /\ [][NextRegistry]_vars

(***************************************************************************)
(* The engine: Engine.world is an Arc<Mutex<World>>; Engine::init creates  *)
(* the pool and fills the scene; about_to_wait submits one job per         *)
(* simulation tick; the job locks the World and calls run_systems.  The    *)
(* World calls are recorded in world_log, each with whether the calling    *)
(* thread held the World's Mutex.                                          *)
(***************************************************************************)
\* An entry of world_log; holder is the owner of the World's Mutex during the call.
Event(thread, tick, ev, holder) ==
    [thread |-> thread, tick |-> tick, ev |-> ev, locked |-> holder = Some(thread)]

\* The calls of run_systems, in order, and what follows each.
Systems == <<"run_transform_system", "update_fps_camera_system",
             "run_render_submission_system">>
SystemSteps == {Systems[i] : i \in 1..Len(Systems)}
after_system(pc) ==
    IF pc = Systems[1] THEN Systems[2]
    ELSE IF pc = Systems[2] THEN Systems[3]
    ELSE "job_end"

\* A submit that wakes nobody.
notify_nobody(waiting) == {{}}

\* Condvar::notify_one: the sets of waiters it may wake (one, or none if nobody waits).
notify_one(waiting) ==
    IF waiting = {} THEN {{}} ELSE {{w} : w \in waiting}

\* Engine::init up to ThreadPool::new(4): the worker threads are spawned.
ThreadPoolNew ==
    /\ mpc = "init"
    /\ wpc' = [w \in Workers |-> "loop"]
    /\ mpc' = "init_scene_lock"
    /\ UNCHANGED <<job_queue, queue_lock, cvar_waiting, is_running, wjob, world_lock,
                   ticks, scene_spawned, world_log>>
    /\ UNCHANGED <<ecsVars, renderVars>>

\* Engine::init: self.world.lock().unwrap() for the argument of init_scene.
InitSceneLock ==
    /\ mpc = "init_scene_lock"
    /\ world_lock = None
    /\ world_lock' = Some(MainThread)
    /\ world_log' = Append(world_log, Event(MainThread, 0, "lock", world_lock'))
    /\ mpc' = "init_scene"
    /\ UNCHANGED <<job_queue, queue_lock, cvar_waiting, is_running, wpc, wjob,
                   ticks, scene_spawned>>
    /\ UNCHANGED <<ecsVars, renderVars>>

\* Engine::init_scene: one world.spawn(...) call.
InitSceneSpawn ==
    /\ mpc = "init_scene"
    /\ scene_spawned < SceneSpawns
    /\ scene_spawned' = scene_spawned + 1
    /\ world_log' = Append(world_log, Event(MainThread, 0, "spawn", world_lock))
    /\ UNCHANGED <<job_queue, queue_lock, cvar_waiting, is_running, wpc, wjob,
                   world_lock, mpc, ticks>>
    /\ UNCHANGED <<ecsVars, renderVars>>

\* init_scene returns and the guard, a temporary of the call statement, is dropped.
InitSceneReturn ==
    /\ mpc = "init_scene"
    /\ scene_spawned = SceneSpawns
    /\ world_log' = Append(world_log, Event(MainThread, 0, "unlock", world_lock))
    /\ world_lock' = None
    /\ mpc' = "about_to_wait"
    /\ UNCHANGED <<job_queue, queue_lock, cvar_waiting, is_running, wpc, wjob,
                   ticks, scene_spawned>>
    /\ UNCHANGED <<ecsVars, renderVars>>

\* about_to_wait, one iteration of its while loop, ThreadPool::submit: lock.lock().unwrap()
SubmitLock ==
    /\ mpc = "about_to_wait"
    /\ ticks < MaxTicks
    /\ queue_lock = None
    /\ queue_lock' = Some(MainThread)
    /\ mpc' = "submit"
    /\ UNCHANGED <<job_queue, cvar_waiting, is_running, wpc, wjob, world_lock,
                   ticks, scene_spawned, world_log>>
    /\ UNCHANGED <<ecsVars, renderVars>>

\* ThreadPool::submit: queue.push_back(job); cvar.notify_one(); the guard is dropped.
SubmitPush ==
    /\ mpc = "submit"
    /\ job_queue' = Append(job_queue, ticks + 1)
    /\ ticks' = ticks + 1
    /\ \E woken \in notify_one(cvar_waiting) :
          /\ cvar_waiting' = cvar_waiting \ woken
          /\ wpc' = [w \in Workers |-> IF w \in woken THEN "woken" ELSE wpc[w]]
    /\ queue_lock' = None
    /\ mpc' = "about_to_wait"
    /\ UNCHANGED <<is_running, wjob, world_lock, scene_spawned, world_log>>
    /\ UNCHANGED <<ecsVars, renderVars>>

\* The worker: while running.load(Acquire) { ... }
WorkerLoop(w) ==
    /\ wpc[w] = "loop"
    /\ wpc' = [wpc EXCEPT ![w] = IF is_running THEN "lock_queue" ELSE "exited"]
    /\ UNCHANGED <<job_queue, queue_lock, cvar_waiting, is_running, wjob, world_lock,
                   mpc, ticks, scene_spawned, world_log>>
    /\ UNCHANGED <<ecsVars, renderVars>>

\* The worker: let mut queue = lock.lock().unwrap();
WorkerLockQueue(w) ==
    /\ wpc[w] = "lock_queue"
    /\ queue_lock = None
    /\ queue_lock' = Some(w)
    /\ wpc' = [wpc EXCEPT ![w] = "check_empty"]
    /\ UNCHANGED <<job_queue, cvar_waiting, is_running, wjob, world_lock,
                   mpc, ticks, scene_spawned, world_log>>
    /\ UNCHANGED <<ecsVars, renderVars>>

\* The worker: while queue.is_empty() { ... }
WorkerCheckEmpty(w) ==
    /\ wpc[w] = "check_empty"
    /\ wpc' = [wpc EXCEPT ![w] = IF job_queue = <<>> THEN "cvar_wait" ELSE "pop_front"]
    /\ UNCHANGED <<job_queue, queue_lock, cvar_waiting, is_running, wjob, world_lock,
                   mpc, ticks, scene_spawned, world_log>>
    /\ UNCHANGED <<ecsVars, renderVars>>

\* The worker: cvar.wait(queue) releases the queue's Mutex and blocks.
WorkerWait(w) ==
    /\ wpc[w] = "cvar_wait"
    /\ queue_lock' = None
    /\ cvar_waiting' = cvar_waiting \cup {w}
    /\ wpc' = [wpc EXCEPT ![w] = "waiting"]
    /\ UNCHANGED <<job_queue, is_running, wjob, world_lock,
                   mpc, ticks, scene_spawned, world_log>>
    /\ UNCHANGED <<ecsVars, renderVars>>

\* The worker, notified: cvar.wait re-acquires the queue's Mutex before it returns.
WorkerReacquire(w) ==
    /\ wpc[w] = "woken"
    /\ queue_lock = None
    /\ queue_lock' = Some(w)
    /\ wpc' = [wpc EXCEPT ![w] = "check_running"]
    /\ UNCHANGED <<job_queue, cvar_waiting, is_running, wjob, world_lock,
                   mpc, ticks, scene_spawned, world_log>>
    /\ UNCHANGED <<ecsVars, renderVars>>

\* The worker: if !running.load(Acquire) { return; } (the return drops the guard)
WorkerCheckRunning(w) ==
    /\ wpc[w] = "check_running"
    /\ wpc' = [wpc EXCEPT ![w] = IF is_running THEN "check_empty" ELSE "exited"]
    /\ queue_lock' = IF is_running THEN queue_lock ELSE None
    /\ UNCHANGED <<job_queue, cvar_waiting, is_running, wjob, world_lock,
                   mpc, ticks, scene_spawned, world_log>>
    /\ UNCHANGED <<ecsVars, renderVars>>

\* The worker: queue.pop_front(), and the guard is dropped at the end of the block.
WorkerPop(w) ==
    /\ wpc[w] = "pop_front"
    /\ wjob' = [wjob EXCEPT ![w] = Head(job_queue)]
    /\ job_queue' = Tail(job_queue)
    /\ queue_lock' = None
    /\ wpc' = [wpc EXCEPT ![w] = "job"]
    /\ UNCHANGED <<cvar_waiting, is_running, world_lock, mpc, ticks, scene_spawned, world_log>>
    /\ UNCHANGED <<ecsVars, renderVars>>

\* A job that calls run_systems on the World without taking its Mutex.
WorkerLockWorld_unlocked(w) ==
    /\ wpc[w] = "job"
    /\ world_log' = Append(world_log, Event(w, wjob[w], "lock", world_lock))
    /\ wpc' = [wpc EXCEPT ![w] = Systems[1]]
    /\ UNCHANGED <<job_queue, queue_lock, cvar_waiting, is_running, wjob, world_lock,
                   mpc, ticks, scene_spawned>>
    /\ UNCHANGED <<ecsVars, renderVars>>

\* The job of a tick: let mut world = world.lock().unwrap();
WorkerLockWorld(w) ==
    /\ wpc[w] = "job"
    /\ world_lock = None
    /\ world_lock' = Some(w)
    /\ world_log' = Append(world_log, Event(w, wjob[w], "lock", world_lock'))
    /\ wpc' = [wpc EXCEPT ![w] = Systems[1]]
    /\ UNCHANGED <<job_queue, queue_lock, cvar_waiting, is_running, wjob,
                   mpc, ticks, scene_spawned>>
    /\ UNCHANGED <<ecsVars, renderVars>>

\* The job of a tick, inside world.run_systems(...): the next system runs.
WorkerRunSystem(w) ==
    /\ wpc[w] \in SystemSteps
    /\ world_log' = Append(world_log, Event(w, wjob[w], wpc[w], world_lock))
    /\ wpc' = [wpc EXCEPT ![w] = after_system(wpc[w])]
    /\ UNCHANGED <<job_queue, queue_lock, cvar_waiting, is_running, wjob, world_lock,
                   mpc, ticks, scene_spawned>>
    /\ UNCHANGED <<ecsVars, renderVars>>

\* The job's closure returns: the guard is dropped, the worker loops.
WorkerJobEnd(w) ==
    /\ wpc[w] = "job_end"
    /\ world_log' = Append(world_log, Event(w, wjob[w], "unlock", world_lock))
    /\ world_lock' = IF world_lock = Some(w) THEN None ELSE world_lock
    /\ wjob' = [wjob EXCEPT ![w] = 0]
    /\ wpc' = [wpc EXCEPT ![w] = "loop"]
    /\ UNCHANGED <<job_queue, queue_lock, cvar_waiting, is_running,
                   mpc, ticks, scene_spawned>>
    /\ UNCHANGED <<ecsVars, renderVars>>

NextEngine ==
    \/ ThreadPoolNew
    \/ InitSceneLock
    \/ InitSceneSpawn
    \/ InitSceneReturn
    \/ SubmitLock
    \/ SubmitPush
    \/ \E w \in Workers : WorkerLoop(w)
    \/ \E w \in Workers : WorkerLockQueue(w)
    \/ \E w \in Workers : WorkerCheckEmpty(w)
    \/ \E w \in Workers : WorkerWait(w)
    \/ \E w \in Workers : WorkerReacquire(w)
    \/ \E w \in Workers : WorkerCheckRunning(w)
    \/ \E w \in Workers : WorkerPop(w)
    \/ \E w \in Workers : WorkerLockWorld(w)
    \/ \E w \in Workers : WorkerRunSystem(w)
    \/ \E w \in Workers : WorkerJobEnd(w)

SpecEngine == Init /\ [][NextEngine]_vars

(***************************************************************************)
(* The pool with ThreadPool::shutdown: the owner may call it whenever it   *)
(* is not inside submit.  The threads are scheduled fairly: a step that    *)
(* stays possible is eventually taken.                                     *)
(***************************************************************************)
\* ThreadPool::shutdown: self.is_running.store(false, Release)
ShutdownStore ==
    /\ mpc = "about_to_wait"
    /\ is_running' = FALSE
    /\ mpc' = "shutdown_notify"
    /\ UNCHANGED <<job_queue, queue_lock, cvar_waiting, wpc, wjob, world_lock,
                   ticks, scene_spawned, world_log>>
    /\ UNCHANGED <<ecsVars, renderVars>>

\* ThreadPool::shutdown: cvar.notify_all(), without taking the queue's Mutex
ShutdownNotifyAll ==
    /\ mpc = "shutdown_notify"
    /\ cvar_waiting' = {}
    /\ wpc' = [w \in Workers |-> IF w \in cvar_waiting THEN "woken" ELSE wpc[w]]
    /\ mpc' = "shutdown_join"
    /\ UNCHANGED <<job_queue, queue_lock, is_running, wjob, world_lock,
                   ticks, scene_spawned, world_log>>
    /\ UNCHANGED <<ecsVars, renderVars>>

\* ThreadPool::shutdown: for handle in self.workers { handle.join() } returns
\* once every worker thread has ended.
ShutdownJoin ==
    /\ mpc = "shutdown_join"
    /\ \A w \in Workers : wpc[w] = "exited"
    /\ mpc' = "shutdown_returned"
    /\ UNCHANGED <<job_queue, queue_lock, cvar_waiting, is_running, wpc, wjob, world_lock,
                   ticks, scene_spawned, world_log>>
    /\ UNCHANGED <<ecsVars, renderVars>>

NextPool ==
    \/ NextEngine
    \/ ShutdownStore
    \/ ShutdownNotifyAll
    \/ ShutdownJoin

WorkerStep(w) ==
    \/ WorkerLoop(w)
    \/ WorkerLockQueue(w)
    \/ WorkerCheckEmpty(w)
    \/ WorkerWait(w)
    \/ WorkerReacquire(w)
    \/ WorkerCheckRunning(w)
    \/ WorkerPop(w)
    \/ WorkerLockWorld(w)
    \/ WorkerRunSystem(w)
    \/ WorkerJobEnd(w)

\* Every thread that can take a step eventually takes one.
FairThreads ==
    /\ \A w \in Workers : WF_vars(WorkerStep(w))
    /\ WF_vars(ShutdownNotifyAll)
    /\ WF_vars(ShutdownJoin)

SpecPool == Init /\ [][NextPool]_vars /\ FairThreads

\* The engine with fairly scheduled threads: a worker that can take a step
\* eventually takes one, and submit, once it holds the queue's Mutex, finishes.
FairEngine ==
    /\ \A w \in Workers : WF_vars(WorkerStep(w))
    /\ WF_vars(SubmitPush)

SpecEngineFair == Init /\ [][NextEngine]_vars /\ FairEngine

(***************************************************************************)
(* The frame indices of the engine: about_to_wait hands frame_index to the *)
(* job of each tick and advances sim_frame_index; a redraw reads the rings *)
(* at both indices and advances frame_index.  The queues are registered by *)
(* register_key.                                                           *)
(***************************************************************************)
\* The values a ring is created from: an empty command list, or one that
\* already holds a command.
StaleCommand == [instance_count |-> 1, first_instance |-> 0, mesh |-> 0, transform |-> <<0>>]
InitValues == {<<>>, <<StaleCommand>>}
EngineKeys == {CameraQueueKey, DrawQueueKey}

\* Registry::register_key(key, value)
RegisterKey(key, value) ==
    /\ ~panicked
    /\ LET r == register_key(keys, registry, key, value) IN
       /\ keys' = r.keys
       /\ registry' = r.registry
    /\ last' = [NoLast EXCEPT !.op = "register_key", !.arg = <<key, value>>]
    /\ UNCHANGED <<frame_index, sim_frame_index, vertex_offset, index_offset>>
    /\ UNCHANGED <<allocVars, worldVars, panicked, spawned, issued, freed>>
    /\ UNCHANGED engineVars

\* about_to_wait, one iteration: the job's run_systems call with the captured
\* frame_index.index() (the render submission system is the one that touches a
\* ring), then self.sim_frame_index.advance().
Tick ==
    /\ ~panicked
    /\ LET f == FrameIndex_index(frame_index)
           r == run_render_submission_system(archetypes, type_to_index, keys, registry, f)
       IN /\ registry' = r.registry
          /\ panicked' = ~r.ok
          /\ last' = [NoLast EXCEPT !.op = "tick", !.arg = <<f>>,
                         !.res = IF r.ok THEN None ELSE Some("out_of_bounds")]
    /\ sim_frame_index' = FrameIndex_advance(sim_frame_index)
    /\ UNCHANGED <<frame_index, keys, vertex_offset, index_offset>>
    /\ UNCHANGED <<generations, free_list, type_to_index, factories, archetypes,
                   entity_location_map, spawned, issued, freed>>
    /\ UNCHANGED engineVars

\* WindowEvent::RedrawRequested: sync_buffers reads the draw queue at
\* sim_frame_index.index() (after get(key).unwrap()), the render pass reads the
\* GPU rings at frame_index.index(); then self.frame_index.advance().
Redraw ==
    /\ ~panicked
    /\ LET reads == <<FrameIndex_index(sim_frame_index), FrameIndex_index(frame_index)>>
           registered == IsSome(Registry_get(keys, registry, DrawQueueKey))
           inside == \A i \in 1..Len(reads) : in_ring(reads[i])
       IN /\ panicked' = ~(registered /\ inside)
          /\ last' = [NoLast EXCEPT !.op = "redraw", !.arg = reads,
                         !.res = IF ~registered THEN Some("unwrap_none")
                                 ELSE IF ~inside THEN Some("out_of_bounds")
                                 ELSE None]
    /\ frame_index' = FrameIndex_advance(frame_index)
    /\ UNCHANGED <<sim_frame_index, keys, registry, vertex_offset, index_offset>>
    /\ UNCHANGED <<generations, free_list, type_to_index, factories, archetypes,
                   entity_location_map, spawned, issued, freed>>
    /\ UNCHANGED engineVars

NextFrames ==
    \/ \E key \in EngineKeys, init \in InitValues : RegisterKey(key, CpuRingQueue_new(init))
    \/ Tick
    \/ Redraw

SpecFrames == Init /\ [][NextFrames]_vars

(***************************************************************************)
(* The render submission system over a World that spawn fills, called with *)
(* each frame index of the ring.                                           *)
(***************************************************************************)
\* World::run_render_submission_system(sim_frame_index, cpu_queue_registry)
RunRenderSubmission(f) ==
    /\ ~panicked
    /\ LET r == run_render_submission_system(archetypes, type_to_index, keys, registry, f) IN
       /\ registry' = r.registry
       /\ panicked' = ~r.ok
    /\ last' = [NoLast EXCEPT !.op = "render_submission", !.arg = <<f>>]
    /\ UNCHANGED <<frame_index, sim_frame_index, keys, vertex_offset, index_offset>>
    /\ UNCHANGED <<allocVars, worldVars, spawned, issued, freed>>
    /\ UNCHANGED engineVars

NextRender ==
    \/ \E comps \in Tuples : Spawn(comps)
    \/ \E init \in InitValues : RegisterKey(DrawQueueKey, CpuRingQueue_new(init))
    \/ \E f \in 0..(RingSlots - 1) : RunRenderSubmission(f)

SpecRender == Init /\ [][NextRender]_vars

(***************************************************************************)
(* The Registry alone: register_key and get with any key and any value.    *)
(***************************************************************************)
\* Keys that agree or differ in the type, in the label, or in both.
RegisterKeys ==
    {from_label(ty, label) : ty \in {CameraQueueKey.type_id, DrawQueueKey.type_id},
                             label \in {CameraQueueKey.label, DrawQueueKey.label}}
RegistryValues == {CpuRingQueue_new(init) : init \in InitValues}

\* Registry::get(key)
RegistryGet(key) ==
    /\ ~panicked
    /\ last' = [NoLast EXCEPT !.op = "get", !.arg = <<key>>,
                              !.res = Registry_get(keys, registry, key)]
    /\ UNCHANGED renderVars
    /\ UNCHANGED <<allocVars, worldVars, panicked, spawned, issued, freed>>
    /\ UNCHANGED engineVars

NextKeys ==
    \/ \E key \in RegisterKeys, value \in RegistryValues : RegisterKey(key, value)
    \/ \E key \in RegisterKeys : RegistryGet(key)

SpecKeys == Init /\ [][NextKeys]_vars

(***************************************************************************)
(* MeshAllocator (engine/src/graphics/mesh/mesh_allocator.rs).  The byte   *)
(* lengths of the vertex and index data are the inputs; the capacities are *)
(* the arguments of MeshAllocator::new, scaled down.  Offsets never exceed *)
(* a capacity plus one data length, far from the u64 range.                *)
(***************************************************************************)
DataLens == 0..MaxDataLen

\* The capacity test both upload functions make for slot i (0-based).
exceeds_capacity(vo, io, i, vertex_data_len, index_data_len) ==
    \/ vo[i + 1] + vertex_data_len > VertexCapacity
    \/ io[i + 1] + index_data_len > IndexCapacity

MeshHandle_at(vo, io, i) == [vertex_offset |-> vo[i + 1], index_offset |-> io[i + 1]]

RECURSIVE upload_static_mesh(_, _, _, _, _, _)
\* upload_static_mesh: for i in 0..3, return None when slot i is too full,
\* else hand out slot i's offsets and advance them; Some(handles) at the end.
upload_static_mesh(vo, io, vertex_data_len, index_data_len, i, handles) ==
    IF i >= RingSlots
    THEN [res |-> Some(handles), vertex_offset |-> vo, index_offset |-> io]
    ELSE IF exceeds_capacity(vo, io, i, vertex_data_len, index_data_len)
    THEN [res |-> None, vertex_offset |-> vo, index_offset |-> io]
    ELSE upload_static_mesh([vo EXCEPT ![i + 1] = @ + vertex_data_len],
                            [io EXCEPT ![i + 1] = @ + index_data_len],
                            vertex_data_len, index_data_len, i + 1,
                            Append(handles, MeshHandle_at(vo, io, i)))

\* upload_mesh: the same test and advance for the one slot frame_index.
upload_mesh(vo, io, f, vertex_data_len, index_data_len) ==
    IF exceeds_capacity(vo, io, f, vertex_data_len, index_data_len)
    THEN [res |-> None, vertex_offset |-> vo, index_offset |-> io]
    ELSE [res |-> Some(MeshHandle_at(vo, io, f)),
          vertex_offset |-> [vo EXCEPT ![f + 1] = @ + vertex_data_len],
          index_offset |-> [io EXCEPT ![f + 1] = @ + index_data_len]]

\* MeshAllocator::upload_static_mesh(queue, vertices, indices)
UploadStaticMesh(vertex_data_len, index_data_len) ==
    /\ ~panicked
    /\ LET r == upload_static_mesh(vertex_offset, index_offset,
                                   vertex_data_len, index_data_len, 0, <<>>) IN
       /\ vertex_offset' = r.vertex_offset
       /\ index_offset' = r.index_offset
       /\ last' = [NoLast EXCEPT !.op = "upload_static_mesh",
                                 !.arg = <<vertex_data_len, index_data_len>>, !.res = r.res]
    /\ UNCHANGED <<frame_index, sim_frame_index, keys, registry>>
    /\ UNCHANGED <<allocVars, worldVars, panicked, spawned, issued, freed>>
    /\ UNCHANGED engineVars

\* MeshAllocator::upload_mesh(queue, frame_index, vertices, indices)
UploadMesh(f, vertex_data_len, index_data_len) ==
    /\ ~panicked
    /\ LET r == upload_mesh(vertex_offset, index_offset, f,
                            vertex_data_len, index_data_len) IN
       /\ vertex_offset' = r.vertex_offset
       /\ index_offset' = r.index_offset
       /\ last' = [NoLast EXCEPT !.op = "upload_mesh",
                                 !.arg = <<f, vertex_data_len, index_data_len>>, !.res = r.res]
    /\ UNCHANGED <<frame_index, sim_frame_index, keys, registry>>
    /\ UNCHANGED <<allocVars, worldVars, panicked, spawned, issued, freed>>
    /\ UNCHANGED engineVars

\* MeshAllocator::clear_current_frame(frame_index)
ClearCurrentFrame(f) ==
    /\ ~panicked
    /\ vertex_offset' = [vertex_offset EXCEPT ![f + 1] = 0]
    /\ index_offset' = [index_offset EXCEPT ![f + 1] = 0]
    /\ last' = [NoLast EXCEPT !.op = "clear_current_frame", !.arg = <<f>>]
    /\ UNCHANGED <<frame_index, sim_frame_index, keys, registry>>
    /\ UNCHANGED <<allocVars, worldVars, panicked, spawned, issued, freed>>
    /\ UNCHANGED engineVars

NextMesh ==
    \/ \E v \in DataLens, i \in DataLens : UploadStaticMesh(v, i)
    \/ \E f \in 0..(RingSlots - 1), v \in DataLens, i \in DataLens : UploadMesh(f, v, i)
    \/ \E f \in 0..(RingSlots - 1) : ClearCurrentFrame(f)

SpecMesh == Init /\ [][NextMesh]_vars

(***************************************************************************)
(* Vocabulary of the properties.                                           *)
(***************************************************************************)
TypeSet(tys) == {tys[i] : i \in 1..Len(tys)}
QueryTypeSet(q) == {q[i].ty : i \in 1..Len(q)}
Registered(ty) == IsSome(get_index(type_to_index, ty))
LocationOf(entity) == Unwrap(entity_location_map[entity.index + 1])
ReadOnly(ty) == <<[ty |-> ty, mut |-> FALSE]>>
\* Every (archetype, slot, row) that holds a component value.
Cells(archs) ==
    {<<a, c, r>> \in (1..Len(archs)) \X (1..(2 * Cardinality(Types))) \X (1..(2 * MaxSpawns * MaxTuple)) :
        /\ c <= Len(archs[a].components)
        /\ IsSome(archs[a].components[c])
        /\ r <= Len(Unwrap(archs[a].components[c]).data)}
CellValue(archs, cell) == Unwrap(archs[cell[1]].components[cell[2]]).data[cell[3]]

\* C1: every spawn returns a handle different from all handles returned before,
\* and right after spawn returns, get_component on that handle yields, for each
\* component of the spawned tuple, Some(the value passed in).
C1_SpawnFreshAndReadable ==
    /\ \A i, j \in 1..Len(spawned) : i # j => spawned[i].entity # spawned[j].entity
    /\ (last.op = "spawn" /\ ~panicked) =>
         \A i \in 1..Len(last.comps) :
            /\ get_component_ok(type_to_index, entity_location_map, last.entity, last.comps[i].ty)
            /\ get_component(archetypes, type_to_index, entity_location_map,
                             last.entity, last.comps[i].ty) = Some(last.comps[i].val)

\* C2: the columns one query borrows in one archetype do not alias: a column
\* that one tuple position borrows mutably is borrowed by no other position.
C2_BorrowedColumnsDistinct ==
    last.op = "query" =>
        \A b \in 1..Len(last.borrows) :
            \A i, j \in 1..Len(last.q) :
                (i # j /\ last.q[i].mut) =>
                    last.borrows[b].indices[i] # last.borrows[b].indices[j]

\* C3: in every archetype each populated column is as long as the entity list,
\* and row r of the archetype is the recorded location of entities[r].
C3_ColumnsParallelToEntities ==
    \A a \in 1..Len(archetypes) :
        /\ \A c \in 1..Len(archetypes[a].components) :
              IsSome(archetypes[a].components[c]) =>
                 Len(Unwrap(archetypes[a].components[c]).data) = Len(archetypes[a].entities)
        /\ \A r \in 1..Len(archetypes[a].entities) :
              LocationOf(archetypes[a].entities[r]) = <<a - 1, r - 1>>

\* C4: a query yields exactly one item for each spawned entity whose component
\* types include every requested type, and no other item.
C4_QueryInnerJoin ==
    last.op = "query" =>
        LET matching == {i \in 1..Len(spawned) :
                            QueryTypeSet(last.q) \subseteq TypeSet(spawned[i].tys)}
            At(k) == <<last.items[k].arch, last.items[k].row>>
        IN /\ \A i \in matching :
                Cardinality({k \in 1..Len(last.items) :
                                At(k) = LocationOf(spawned[i].entity)}) = 1
           /\ \A k \in 1..Len(last.items) :
                \E i \in matching : At(k) = LocationOf(spawned[i].entity)

\* C6: two entities spawned with the same set of component types are stored in
\* the same archetype, and a query for any subset of those types yields both.
C6_SameTypeSetSameArchetype ==
    \A i, j \in 1..Len(spawned) :
        TypeSet(spawned[i].tys) = TypeSet(spawned[j].tys) =>
            /\ LocationOf(spawned[i].entity)[1] = LocationOf(spawned[j].entity)[1]
            /\ \A ty \in TypeSet(spawned[i].tys) :
                  LET items == query(archetypes, type_to_index, ReadOnly(ty), 0).items IN
                  \A e \in {spawned[i].entity, spawned[j].entity} :
                      \E k \in 1..Len(items) :
                          <<items[k].arch, items[k].row>> = LocationOf(e)

\* C7: an assignment through a mutable query is what get_component and a later
\* read-only query return for that entity and type; every other component
\* value, and everything else in the World, is unchanged.
C7_MutationVisible ==
    [][last'.op = "query_assign" =>
        LET w == last'.write
            ty == last'.ty
            items == query(archetypes', type_to_index', ReadOnly(ty), 0).items
        IN /\ get_index(type_to_index', ty) = Some(w.index)
           /\ \A i \in 1..Len(spawned) :
                 LocationOf(spawned[i].entity) = <<w.arch, w.row>> =>
                    get_component(archetypes', type_to_index', entity_location_map',
                                  spawned[i].entity, ty) = Some(w.val)
           /\ \E k \in 1..Len(items) :
                 /\ <<items[k].arch, items[k].row>> = <<w.arch, w.row>>
                 /\ items[k].vals = <<w.val>>
           /\ Cells(archetypes') = Cells(archetypes)
           /\ \A cell \in Cells(archetypes) :
                 cell # <<w.arch + 1, w.index + 1, w.row + 1>> =>
                    CellValue(archetypes', cell) = CellValue(archetypes, cell)
           /\ \A a \in 1..Len(archetypes) :
                 /\ archetypes'[a].key = archetypes[a].key
                 /\ archetypes'[a].entities = archetypes[a].entities
           /\ UNCHANGED <<allocVars, type_to_index, factories, entity_location_map, panicked>>
      ]_vars

\* C7 happens: an assignment to a component of one of two spawned entities that
\* share a column.
C7_Witness ==
    /\ last.op = "query_assign"
    /\ Len(spawned) = 2
    /\ \E i \in 1..Len(spawned) : LocationOf(spawned[i].entity) = <<last.write.arch, last.write.row>>
    /\ Len(archetypes[last.write.arch + 1].entities) = 2

\* C8: a query that names a component type the registry has never seen yields
\* nothing, does not panic, registers nothing and leaves the World as it was.
C8_UnregisteredQueryEmpty ==
    [][(/\ last'.op = "query"
        /\ \E i \in 1..Len(last'.q) : ~IsSome(get_index(type_to_index, last'.q[i].ty)))
       => /\ last'.items = <<>>
          /\ ~panicked'
          /\ UNCHANGED <<allocVars, worldVars>>
      ]_vars

\* C8 happens: a query for a registered type that has entities together with a
\* never-registered type.
C8_Witness ==
    /\ last.op = "query"
    /\ Len(last.q) = 2
    /\ Registered(last.q[1].ty)
    /\ ~Registered(last.q[2].ty)
    /\ \E i \in 1..Len(spawned) : last.q[1].ty \in TypeSet(spawned[i].tys)
    /\ last.items = <<>>

\* C5: a handle that was allocated and then deallocated is not alive, and stays
\* not alive whatever is allocated or deallocated afterwards; an allocate that
\* reuses its index returns a strictly greater generation.
C5_GenerationalSafety ==
    ~panicked =>
    /\ \A h \in freed : ~is_alive(generations, h)
    /\ last.op = "allocate" =>
          \A h \in freed :
              h.index = last.entity.index => U32Less(h.generation, last.entity.generation)

\* C9: deallocate on an index the allocator has no slot for does not fail, and
\* is_alive on such an index returns false.
C9_UnknownIndexPermitted ==
    /\ (last.op = "deallocate" /\ ~(last.entity.index < Len(generations))) => ~panicked
    /\ (last.op = "is_alive" /\ ~(last.entity.index < Len(generations))) => ~last.alive

\* C10: deallocate with a handle whose generation is not the slot's changes
\* neither generations nor the free list and does not fail; after any
\* deallocate(h) that returns, h's generation is not the slot's, so a second
\* deallocate(h) is such a call, also once the index has been reallocated.
C10_StaleDeallocateNoOp ==
    [][(last'.op = "deallocate" /\ last'.entity.index < Len(generations)) =>
        LET h == last'.entity IN
        /\ generations[h.index + 1] # h.generation =>
              /\ UNCHANGED allocVars
              /\ ~panicked'
              /\ \A h2 \in issued : is_alive(generations', h2) = is_alive(generations, h2)
        /\ ~panicked' => generations'[h.index + 1] # h.generation
      ]_vars

\* C10 happens: deallocate of a handle that was already deallocated, while a
\* newer handle of the same index is alive.
C10_Witness ==
    /\ last.op = "deallocate"
    /\ ~panicked
    /\ last.entity \in freed
    /\ \E h2 \in issued :
          /\ h2.index = last.entity.index
          /\ h2 # last.entity
          /\ is_alive(generations, h2)

\* Whether get_component's location lookup finds Some for the handle.
HasLocation(entity) ==
    /\ entity.index < Len(entity_location_map)
    /\ IsSome(entity_location_map[entity.index + 1])
SpawnedEntities == {spawned[i].entity : i \in 1..Len(spawned)}

\* C11: get_component on a handle that has no recorded location panics, and
\* get_component for a type that was never registered panics; neither call
\* returns a value.
C11_GetComponentPanics ==
    (/\ last.op = "get_component"
     /\ (~HasLocation(last.entity) \/ ~Registered(last.ty)))
    => (panicked /\ last.res = None)

\* C11 happens: get_component, for a registered type, on a handle that was
\* never spawned while another entity was.
C11_Witness ==
    /\ last.op = "get_component"
    /\ Len(spawned) > 0
    /\ Registered(last.ty)
    /\ last.entity \notin SpawnedEntities
    /\ ~HasLocation(last.entity)
    /\ panicked

\* C12: get_component for a registered type that is not among the component
\* types of a spawned entity returns None and does not panic, also when the
\* type's index is past the end of the slot array of the entity's archetype.
C12_AbsentComponentNone ==
    (/\ last.op = "get_component"
     /\ Registered(last.ty)
     /\ \E i \in 1..Len(spawned) :
           spawned[i].entity = last.entity /\ last.ty \notin TypeSet(spawned[i].tys))
    => (~panicked /\ last.res = None)

\* C12 happens: the type was registered after the entity's archetype was
\* created, so its index is not a slot of that archetype.
C12_Witness ==
    /\ last.op = "get_component"
    /\ ~panicked
    /\ Registered(last.ty)
    /\ \E i \in 1..Len(spawned) :
          spawned[i].entity = last.entity /\ last.ty \notin TypeSet(spawned[i].tys)
    /\ Unwrap(get_index(type_to_index, last.ty))
          >= Len(archetypes[LocationOf(last.entity)[1] + 1].components)
    /\ last.res = None

IsPrefix(s, t) == Len(s) <= Len(t) /\ \A k \in 1..Len(s) : t[k] = s[k]
RegistryNext == [type_to_index |-> type_to_index', factories |-> factories']

\* C14: a type that has an index keeps it: after any step, get_index and
\* get_or_register return the index the type had before, get_or_register on a
\* registered type registers nothing, the registered types stay where they are
\* (no index is removed or given to another type) and no type has two indices.
C14_RegistryIndexStable ==
    [][/\ IsPrefix(type_to_index, type_to_index')
       /\ \A ty \in Types :
             Registered(ty) =>
                /\ get_index(type_to_index', ty) = get_index(type_to_index, ty)
                /\ get_or_register(RegistryNext, ty).index = Unwrap(get_index(type_to_index, ty))
                /\ get_or_register(RegistryNext, ty).reg = RegistryNext
       /\ \A j, k \in 1..Len(type_to_index') :
             j # k => type_to_index'[j] # type_to_index'[k]
      ]_vars

\* C14 happens: a type registered by the first spawn is resolved again by a
\* second spawn, after that spawn has registered another type.
C14_Witness ==
    /\ last.op = "spawn"
    /\ Len(spawned) = 2
    /\ spawned[1].tys = <<"A">>
    /\ spawned[2].tys = <<"B", "A">>
    /\ type_to_index = <<"A", "B">>

\* C15: the items of a query come archetype by archetype in the order of the
\* World's archetype list and, within an archetype, row by row from row 0
\* upwards: item k holds the values stored at its archetype, columns and row.
\* The archetype list is in order of creation and each entity list in order of
\* spawning.
C15_QueryOrder ==
    LET SpawnPos(e) == CHOOSE i \in 1..Len(spawned) : spawned[i].entity = e
        items == last.items
    IN
    /\ last.op = "query" =>
          /\ \A k \in 1..Len(items) :
                /\ \A p \in 1..Len(last.q) :
                      items[k].vals[p] =
                         CellValue(archetypes, <<items[k].arch + 1, items[k].indices[p] + 1,
                                                 items[k].row + 1>>)
                /\ IF k = 1 \/ items[k - 1].arch # items[k].arch
                   THEN items[k].row = 0
                   ELSE items[k].row = items[k - 1].row + 1
          /\ \A k \in 1..(Len(items) - 1) : items[k].arch <= items[k + 1].arch
    /\ ~panicked =>
          /\ \A a \in 1..Len(archetypes) :
                \A r1, r2 \in 1..Len(archetypes[a].entities) :
                   r1 < r2 => SpawnPos(archetypes[a].entities[r1])
                                 < SpawnPos(archetypes[a].entities[r2])
          /\ \A a, b \in 1..Len(archetypes) :
                a < b => SpawnPos(archetypes[a].entities[1]) < SpawnPos(archetypes[b].entities[1])

\* C15 happens: a query over one archetype that holds two entities with
\* different values yields two items.
C15_Witness ==
    /\ last.op = "query"
    /\ Len(last.items) = 2
    /\ last.items[1].arch = last.items[2].arch
    /\ Len(archetypes[last.items[1].arch + 1].entities) = 2
    /\ last.items[1].vals # last.items[2].vals

\* C16: allocate with a non-empty free list returns the index at the end of
\* the free list with that slot's generation and removes it, leaving the slots
\* as they are; with an empty free list it appends a slot of generation 0 and
\* returns its index, the previous number of slots.  A deallocate that frees
\* an index puts it at the end of the free list, so the end is the most
\* recently deallocated index.
C16_AllocateLifo ==
    [][/\ last'.op = "allocate" =>
             IF Len(free_list) > 0
             THEN LET index == free_list[Len(free_list)] IN
                  /\ last'.entity = EntityId(index, generations[index + 1])
                  /\ free_list' = SubSeq(free_list, 1, Len(free_list) - 1)
                  /\ generations' = generations
             ELSE /\ last'.entity = EntityId(Len(generations), U32(0))
                  /\ generations' = Append(generations, U32(0))
                  /\ free_list' = free_list
       /\ (last'.op = "deallocate" /\ free_list' # free_list) =>
             free_list' = Append(free_list, last'.entity.index)
      ]_vars

\* C16 happens: allocate returned a freed index while an index freed earlier
\* is still in the free list.
C16_Witness ==
    /\ last.op = "allocate"
    /\ Len(free_list) > 0
    /\ free_list[1] # last.entity.index
    /\ \E h \in freed : h.index = last.entity.index

\* C17: every index spawn passes to archetype construction is smaller than the
\* registry's length at that moment, and no spawn panics.
C17_ArchetypeAssertHolds ==
    [][last'.op = "spawn" =>
          LET ci == component_indices(Registry, TypesOf(last'.comps)) IN
          /\ \A k \in 1..Len(ci.indices) : ci.indices[k] < Len(ci.reg.type_to_index)
          /\ ci.reg = RegistryNext
          /\ ~panicked'
      ]_vars

\* C17 happens: a spawn created an archetype for a type whose index is not 0.
C17_Witness ==
    /\ last.op = "spawn"
    /\ ~panicked
    /\ Len(archetypes) = 2
    /\ archetypes[2].key = <<1>>
    /\ Len(archetypes[2].components) = 2

\* C18: no two archetypes have equal keys, there are as many archetypes as
\* distinct sets of component types spawned so far, and no step removes or
\* moves an archetype or changes its key.
C18_ArchetypesUniqueAndStable ==
    [][/\ \A a, b \in 1..Len(archetypes') :
             a # b => archetypes'[a].key # archetypes'[b].key
       /\ ~panicked' =>
             Len(archetypes') =
                Cardinality({TypeSet(spawned'[i].tys) : i \in 1..Len(spawned')})
       /\ Len(archetypes) <= Len(archetypes')
       /\ \A a \in 1..Len(archetypes) : archetypes'[a].key = archetypes[a].key
      ]_vars

\* C19: a spawn leaves every stored row as it was (each entity list and each
\* column is a prefix of itself after the call), grows exactly one archetype,
\* by one entity and one row in each of its populated columns, and leaves the
\* get_component values of the entities spawned before unchanged; no step of
\* the World shortens an entity list or a column.
C19_SpawnAppendOnly ==
    [][/\ Len(archetypes) <= Len(archetypes')
       /\ \A a \in 1..Len(archetypes) :
             /\ IsPrefix(archetypes[a].entities, archetypes'[a].entities)
             /\ Len(archetypes'[a].components) = Len(archetypes[a].components)
             /\ \A c \in 1..Len(archetypes[a].components) :
                   IF IsSome(archetypes[a].components[c])
                   THEN /\ IsSome(archetypes'[a].components[c])
                        /\ Len(Unwrap(archetypes[a].components[c]).data)
                              <= Len(Unwrap(archetypes'[a].components[c]).data)
                   ELSE ~IsSome(archetypes'[a].components[c])
       /\ (last'.op = "spawn" /\ ~panicked') =>
             LET Rows(archs, a) == IF a <= Len(archs) THEN Len(archs[a].entities) ELSE 0
                 ColumnRows(archs, a, c) ==
                     IF a <= Len(archs) THEN Len(Unwrap(archs[a].components[c]).data) ELSE 0
                 grown == {a \in 1..Len(archetypes') :
                              Rows(archetypes', a) # Rows(archetypes, a)}
             IN /\ Cardinality(grown) = 1
                /\ \A a \in 1..Len(archetypes') :
                      /\ a \in grown => Rows(archetypes', a) = Rows(archetypes, a) + 1
                      /\ \A c \in 1..Len(archetypes'[a].components) :
                            IsSome(archetypes'[a].components[c]) =>
                               /\ ColumnRows(archetypes', a, c) =
                                     ColumnRows(archetypes, a, c)
                                        + (IF a \in grown THEN 1 ELSE 0)
                               /\ a <= Len(archetypes) =>
                                     IsPrefix(Unwrap(archetypes[a].components[c]).data,
                                              Unwrap(archetypes'[a].components[c]).data)
                /\ \A i \in 1..Len(spawned), ty \in Types :
                      Registered(ty) =>
                         get_component(archetypes', type_to_index', entity_location_map',
                                       spawned[i].entity, ty)
                            = get_component(archetypes, type_to_index, entity_location_map,
                                            spawned[i].entity, ty)
      ]_vars

\* C20: every spawned entity e has a recorded location Some((a, r)) with a an
\* archetype, r a row of its entity list and entities[r] = e; a spawn leaves
\* the recorded locations of the entities spawned before as they were.
C20_LocationMap ==
    [][~panicked' =>
          /\ \A i \in 1..Len(spawned') :
                LET e == spawned'[i].entity IN
                /\ e.index < Len(entity_location_map')
                /\ IsSome(entity_location_map'[e.index + 1])
                /\ LET loc == Unwrap(entity_location_map'[e.index + 1]) IN
                   /\ loc[1] < Len(archetypes')
                   /\ loc[2] < Len(archetypes'[loc[1] + 1].entities)
                   /\ archetypes'[loc[1] + 1].entities[loc[2] + 1] = e
          /\ \A i \in 1..Len(spawned) :
                entity_location_map'[spawned[i].entity.index + 1]
                   = entity_location_map[spawned[i].entity.index + 1]
      ]_vars

\* C20 happens: a second spawn has recorded its location next to the first's,
\* both in one archetype.
C20_Witness ==
    /\ last.op = "spawn"
    /\ ~panicked
    /\ Len(spawned) = 2
    /\ LocationOf(spawned[1].entity) = <<0, 0>>
    /\ LocationOf(spawned[2].entity) = <<0, 1>>

\* The events of world_log that belong to tick k, in order.
RECURSIVE EventsOfTick(_, _)
EventsOfTick(log, k) ==
    IF log = <<>> THEN <<>>
    ELSE IF log[1].tick = k THEN <<log[1].ev>> \o EventsOfTick(Tail(log), k)
    ELSE EventsOfTick(Tail(log), k)
TickEvents == <<"lock">> \o Systems \o <<"unlock">>

\* C13: at most one worker is inside run_systems at a time, and it holds the
\* World's lock; every spawn and every system ran with the lock held; the job
\* of a tick locks once, then runs the systems in order, then unlocks, and no
\* other thread takes the lock or touches the World in between.
C13_WorldSerialized ==
    /\ Cardinality({w \in Workers : wpc[w] \in SystemSteps}) <= 1
    /\ \A w \in Workers : wpc[w] \in SystemSteps \cup {"job_end"} => world_lock = Some(w)
    /\ mpc = "init_scene" => world_lock = Some(MainThread)
    /\ \A i \in 1..Len(world_log) : world_log[i].locked
    /\ \A k \in 1..ticks : IsPrefix(EventsOfTick(world_log, k), TickEvents)
    /\ \A i, j \in 1..Len(world_log) :
          (/\ i < j
           /\ world_log[j].thread # world_log[i].thread
           /\ world_log[i].ev # "unlock")
          => \E u \in (i + 1)..(j - 1) :
                world_log[u].ev = "unlock" /\ world_log[u].thread = world_log[i].thread

\* C13 happens: a worker is inside run_systems for one tick while another
\* worker has popped the job of the next tick and is blocked on the World's lock.
C13_Witness ==
    \E w1, w2 \in Workers :
        /\ wpc[w1] \in SystemSteps
        /\ wpc[w2] = "job"
        /\ wjob[w1] # wjob[w2]

PopulatedSlots(arch) ==
    {i \in 0..(Len(arch.components) - 1) : IsSome(arch.components[i + 1])}

\* C21: an archetype's slot array is as long as the registry was when the
\* archetype was created, slot i holds a column exactly when i is one of the
\* indices the archetype was created with, and no later step changes the
\* length of the slot array or which slots hold a column.
C21_ArchetypeShapeFixed ==
    [][\A a \in 1..Len(archetypes') :
          /\ PopulatedSlots(archetypes'[a]) = TypeSet(archetypes'[a].key)
          /\ IF a <= Len(archetypes)
             THEN /\ Len(archetypes'[a].components) = Len(archetypes[a].components)
                  /\ PopulatedSlots(archetypes'[a]) = PopulatedSlots(archetypes[a])
             ELSE /\ Len(archetypes'[a].components) = Len(type_to_index')
                  /\ TypeSet(archetypes'[a].key) =
                        TypeSet(component_indices(Registry, TypesOf(last'.comps)).indices)
      ]_vars

\* C21 happens: the first archetype keeps its one-slot array after a second
\* type was registered, and the second archetype has an empty slot 0.
C21_Witness ==
    /\ Len(archetypes) = 2
    /\ Len(type_to_index) = 2
    /\ Len(archetypes[1].components) = 1
    /\ Len(archetypes[2].components) = 2
    /\ PopulatedSlots(archetypes[2]) = {1}
    /\ Len(archetypes[2].entities) = 1

\* C22: the identity list and the factory list are equally long and hold no
\* type twice; get_or_register gives a new type the index equal to the number
\* of types registered before it and a registered type the index it has;
\* get_index returns Some(i) exactly for the type at position i, None for a
\* type that was never registered, and changes nothing.
C22_RegistryDenseInjective ==
    [][/\ Len(type_to_index') = Len(factories')
       /\ \A j, k \in 1..Len(type_to_index') :
             j # k => type_to_index'[j] # type_to_index'[k]
       /\ \A j \in 1..Len(type_to_index') : factories'[j] = type_to_index'[j]
       /\ last'.op = "get_or_register" =>
             IF \E j \in 1..Len(type_to_index) : type_to_index[j] = last'.ty
             THEN /\ type_to_index[Unwrap(last'.res) + 1] = last'.ty
                  /\ UNCHANGED <<type_to_index, factories>>
             ELSE /\ last'.res = Some(Len(type_to_index))
                  /\ type_to_index' = Append(type_to_index, last'.ty)
       /\ last'.op = "get_index" =>
             /\ UNCHANGED <<type_to_index, factories>>
             /\ \A i \in 0..(Len(type_to_index) - 1) :
                   (last'.res = Some(i)) <=> (type_to_index[i + 1] = last'.ty)
             /\ (\A j \in 1..Len(type_to_index) : type_to_index[j] # last'.ty)
                   => last'.res = None
      ]_vars

\* C22 happens: get_index finds the first of three registered types.
C22_Witness ==
    /\ last.op = "get_index"
    /\ Len(type_to_index) = 3
    /\ last.res = Some(0)

\* C23: with allocate and deallocate called only on issued handles, after
\* every call that returns the free list holds no index twice, no issued
\* handle of an index on the free list is alive, at most one issued handle per
\* index is alive, and the handle allocate returned was not an alive issued
\* handle before the call.
C23_AllocatorInvariant ==
    [][~panicked' =>
          /\ \A j, k \in 1..Len(free_list') : j # k => free_list'[j] # free_list'[k]
          /\ \A k \in 1..Len(free_list') :
                \A h \in issued' : h.index = free_list'[k] => ~is_alive(generations', h)
          /\ \A h1, h2 \in issued' :
                (/\ h1.index = h2.index
                 /\ is_alive(generations', h1)
                 /\ is_alive(generations', h2)) => h1 = h2
          /\ last'.op = "allocate" =>
                ~(last'.entity \in issued /\ is_alive(generations, last'.entity))
      ]_vars

\* C24: once shutdown has been called, every worker thread eventually exits
\* and shutdown returns from its joins.
C24_ShutdownTerminates ==
    (mpc = "shutdown_notify") ~>
        (mpc = "shutdown_returned" /\ \A w \in Workers : wpc[w] = "exited")

\* Where the job of tick k is: in the queue, held by a worker, or finished.
InQueue(k) == \E i \in 1..Len(job_queue) : job_queue[i] = k
Holders(k) == {w \in Workers : wjob[w] = k}
Executions(k) == {i \in 1..Len(world_log) : world_log[i].tick = k /\ world_log[i].ev = Systems[1]}
Finished(k) == \E i \in 1..Len(world_log) : world_log[i].tick = k /\ world_log[i].ev = "unlock"

C26_TicksInSubmissionOrder ==
    \A i \in 1..Len(world_log) :
        (world_log[i].tick > 1 /\ world_log[i].ev \in {"lock"} \cup SystemSteps) =>
            \E j \in 1..(i - 1) :
                /\ world_log[j].tick = world_log[i].tick - 1
                /\ world_log[j].ev = "unlock"

\* C27: both frame indices stay below 3 and each advance moves 0 to 1, 1 to 2
\* and 2 to 0; the frame index a tick passes to run_systems and the indices a
\* redraw reads the rings at are below 3, and no ring access is out of bounds.
C27_FrameIndexInRing ==
    [][/\ FrameIndex_index(frame_index') \in 0..(RingSlots - 1)
       /\ FrameIndex_index(sim_frame_index') \in 0..(RingSlots - 1)
       /\ \A pair \in {<<frame_index, frame_index'>>, <<sim_frame_index, sim_frame_index'>>} :
             pair[2] # pair[1] =>
                pair[2].current = (IF pair[1].current = 2 THEN 0 ELSE pair[1].current + 1)
       /\ last'.op \in {"tick", "redraw"} =>
             /\ \A i \in 1..Len(last'.arg) : last'.arg[i] < RingSlots
             /\ last'.res # Some("out_of_bounds")
      ]_vars

\* C27 happens: both indices have wrapped around to 0, and a tick has written
\* the last ring slot.
C27_Witness ==
    /\ last.op = "redraw"
    /\ last.arg = <<0, 2>>
    /\ FrameIndex_index(frame_index) = 0
    /\ ~panicked
    /\ IsSome(Registry_get(keys, registry, DrawQueueKey))
    /\ Unwrap(Registry_get(keys, registry, DrawQueueKey)).queues[3] = <<draw_command(<<>>)>>

\* The spawned entities that have both a Transform and a MeshHandle.
DrawnEntities ==
    {i \in 1..Len(spawned) : {Transform, MeshHandle} \subseteq TypeSet(spawned[i].tys)}
DrawQueue(ks, values) == Unwrap(Registry_get(ks, values, DrawQueueKey)).queues

KeySet(ks) == {ks[i] : i \in 1..Len(ks)}
\* The value given at the first register_key call of each key, kept as the
\* registry grows: position i of keys was appended together with registry[i].
FirstValue(key) == registry[CHOOSE i \in 1..Len(keys) : keys[i] = key]

\* C29: register_key of a key that is present changes neither keys nor values,
\* and of an absent key appends the key and the value; so keys never holds a
\* key twice, keys and values have equal length, a value once registered never
\* changes, get of a registered key returns the value of its first registration
\* and get of a key never registered returns None.
C29_RegisterKeyFirstWins ==
    [][/\ Len(keys') = Len(registry')
       /\ \A i, j \in 1..Len(keys') : keys'[i] = keys'[j] => i = j
       /\ \A i \in 1..Len(keys) : keys'[i] = keys[i] /\ registry'[i] = registry[i]
       /\ last'.op = "register_key" =>
             IF last'.arg[1] \in KeySet(keys)
             THEN keys' = keys /\ registry' = registry
             ELSE keys' = Append(keys, last'.arg[1]) /\ registry' = Append(registry, last'.arg[2])
       /\ last'.op = "get" =>
             IF last'.arg[1] \in KeySet(keys)
             THEN last'.res = Some(FirstValue(last'.arg[1]))
             ELSE last'.res = None
      ]_vars

\* C29 happens: the draw-queue key was registered a second time with a value
\* other than the one the registry holds for it, next to a key with the same
\* label and another type.
C29_Witness ==
    /\ last.op = "register_key"
    /\ last.arg[1] = DrawQueueKey
    /\ IsSome(Registry_get(keys, registry, DrawQueueKey))
    /\ Registry_get(keys, registry, DrawQueueKey) # Some(last.arg[2])
    /\ from_label(CameraQueueKey.type_id, DrawQueueKey.label) \in KeySet(keys)

\* The slots an upload call hands out offsets of, with the handle of each.
HandedOut(l) ==
    IF l.op = "upload_mesh" THEN {<<l.arg[1] + 1, Unwrap(l.res)>>}
    ELSE {<<i, Unwrap(l.res)[i]>> : i \in 1..Len(Unwrap(l.res))}

\* C30: when upload_mesh or upload_static_mesh returns None, the vertex and
\* index offsets of all three slots are what they were before the call; when
\* it returns a handle, the handle's offsets are the slot's offsets before the
\* call and the slot's offsets afterwards do not exceed the capacities.
C30_UploadsFailAtomically ==
    [][last'.op \in {"upload_mesh", "upload_static_mesh"} =>
         IF last'.res = None
         THEN vertex_offset' = vertex_offset /\ index_offset' = index_offset
         ELSE \A h \in HandedOut(last') :
                 /\ h[2].vertex_offset = vertex_offset[h[1]]
                 /\ h[2].index_offset = index_offset[h[1]]
                 /\ vertex_offset'[h[1]] <= VertexCapacity
                 /\ index_offset'[h[1]] <= IndexCapacity
      ]_vars
====
